---------------------------- MODULE Spec2Model ----------------------------
(***************************************************************************)
(* Boids flocking simulation with attractor / repulsor orbs                *)
(* (src/unnamed/part_001, the orb variant; src/unnamed/part_000 is the     *)
(* basic variant with the same Vector and Boid code, no orbs and wrap mode *)
(* only).                                                                  *)
(*                                                                         *)
(* Numbers.  The program computes in IEEE doubles.  Here a number is a     *)
(* fixed-point integer, SCALE units for 1.0, and every multiplication,     *)
(* division and square root rounds to the nearest unit, as the double      *)
(* operations round to the nearest double.  The three special doubles the  *)
(* program can produce (NaN, +Infinity, -Infinity) are kept, with their    *)
(* IEEE arithmetic and comparisons.  Signed zero is not distinguished.     *)
(***************************************************************************)
EXTENDS Integers, Sequences, FiniteSets, TLC

\* ------------------------------------------------------------------------
\* Numbers
\* ------------------------------------------------------------------------

SCALE == 1000

NaN == -2100000000

PosInf == 2000000000

NegInf == -2000000000

IsNaN(a) == a = NaN

IsInf(a) == a = PosInf \/ a = NegInf

IsFinite(a) == ~IsNaN(a) /\ ~IsInf(a)

Sign(a) == IF a > 0 THEN 1 ELSE IF a < 0 THEN -1 ELSE 0

SignedInf(s) == IF s < 0 THEN NegInf ELSE PosInf

\* n / d rounded to the nearest integer (d > 0), halves away from zero.
RoundDiv(n, d) ==
    IF n >= 0 THEN (n + d \div 2) \div d ELSE -((-n + d \div 2) \div d)

RECURSIVE SqrtSearch(_, _, _)
\* the largest r in lo..hi with r * r <= n
SqrtSearch(n, lo, hi) ==
    IF lo >= hi THEN lo
    ELSE LET mid == (lo + hi + 1) \div 2
         IN  IF mid * mid <= n THEN SqrtSearch(n, mid, hi)
             ELSE SqrtSearch(n, lo, mid - 1)

\* sqrt(n) rounded to the nearest integer
ISqrt(n) ==
    LET r == SqrtSearch(n, 0, 46340)
    IN  IF n - r * r > r THEN r + 1 ELSE r

FNeg(a) ==
    IF IsNaN(a) THEN NaN
    ELSE IF a = PosInf THEN NegInf
    ELSE IF a = NegInf THEN PosInf
    ELSE -a

\* a + b
FAdd(a, b) ==
    IF IsNaN(a) \/ IsNaN(b) THEN NaN
    ELSE IF IsInf(a) THEN (IF IsInf(b) /\ b # a THEN NaN ELSE a)
    ELSE IF IsInf(b) THEN b
    ELSE a + b

\* a - b
FSub(a, b) == FAdd(a, FNeg(b))

\* a * b
FMul(a, b) ==
    IF IsNaN(a) \/ IsNaN(b) THEN NaN
    ELSE IF IsInf(a) \/ IsInf(b)
         THEN (IF a = 0 \/ b = 0 THEN NaN ELSE SignedInf(Sign(a) * Sign(b)))
    ELSE RoundDiv(a * b, SCALE)

\* a / b
FDiv(a, b) ==
    IF IsNaN(a) \/ IsNaN(b) THEN NaN
    ELSE IF IsInf(a)
         THEN (IF IsInf(b) THEN NaN
               ELSE SignedInf(Sign(a) * (IF b < 0 THEN -1 ELSE 1)))
    ELSE IF IsInf(b) THEN 0
    ELSE IF b = 0 THEN (IF a = 0 THEN NaN ELSE SignedInf(Sign(a)))
    ELSE IF b > 0 THEN RoundDiv(a * SCALE, b)
    ELSE -RoundDiv(a * SCALE, -b)

\* Math.sqrt(a)
FSqrt(a) ==
    IF IsNaN(a) THEN NaN
    ELSE IF a = PosInf THEN PosInf
    ELSE IF a < 0 THEN NaN
    ELSE ISqrt(a * SCALE)

\* a < b, a > b, a <= b: false when either side is NaN
FLt(a, b) == ~IsNaN(a) /\ ~IsNaN(b) /\ a < b

FGt(a, b) == ~IsNaN(a) /\ ~IsNaN(b) /\ a > b

FLe(a, b) == ~IsNaN(a) /\ ~IsNaN(b) /\ a <= b

\* x || 0
OrZero(x) == IF IsNaN(x) THEN 0 ELSE x

\* ------------------------------------------------------------------------
\* Vector
\* ------------------------------------------------------------------------

Vector(x, y) == [x |-> OrZero(x), y |-> OrZero(y)]

Zero == Vector(0, 0)

add(v, other) == [x |-> FAdd(v.x, other.x), y |-> FAdd(v.y, other.y)]

sub(v, other) == [x |-> FSub(v.x, other.x), y |-> FSub(v.y, other.y)]

mult(v, scalar) == [x |-> FMul(v.x, scalar), y |-> FMul(v.y, scalar)]

div(v, scalar) == [x |-> FDiv(v.x, scalar), y |-> FDiv(v.y, scalar)]

mag(v) == FSqrt(FAdd(FMul(v.x, v.x), FMul(v.y, v.y)))

normalize(v) ==
    LET m == mag(v)
    IN  IF FGt(m, 0) THEN div(v, m) ELSE v

setMag(v, m) == mult(normalize(v), m)

limit(v, max) == IF FGt(mag(v), max) THEN setMag(v, max) ELSE v

copy(v) == Vector(v.x, v.y)

dist(v1, v2) ==
    LET dx == FSub(v1.x, v2.x)
        dy == FSub(v1.y, v2.y)
    IN  FSqrt(FAdd(FMul(dx, dx), FMul(dy, dy)))

\* ------------------------------------------------------------------------
\* Simulation parameters that never change
\* ------------------------------------------------------------------------

MAX_FORCE == SCALE \div 2

MAX_SPEED == 5 * SCALE

ORB_STRENGTH == 40 * SCALE

ORB_RADIUS == 10 * SCALE

\* this.size of every Boid
size == 2

desiredSeparation == size * 6 * SCALE

\* ------------------------------------------------------------------------
\* Boid: the three flocking rules.  bs is the population (a sequence of
\* boids), i the index of `this`, P the current PERCEPTION_RADIUS.
\* ------------------------------------------------------------------------

\* (mutant of IsOther: the scan does not skip `this`)
IsOtherAny(i, j) == TRUE

\* other !== this
IsOther(i, j) == j # i

\* d < desiredSeparation
InSeparationRange(d) == FLt(d, desiredSeparation)

\* Vector.dist(this.position, other.position) < PERCEPTION_RADIUS
InPerception(d, P) == FLt(d, P)

\* (mutant of SeparationDiff: the difference taken from this to the other)
SeparationDiffToward(this, other, d) ==
    div(sub(copy(other.position), this.position), FMul(d, d))

\* One neighbour's term of separation: diff = (this - other) / (d * d)
SeparationDiff(this, other, d) ==
    div(sub(copy(this.position), other.position), FMul(d, d))

RECURSIVE SeparationScan(_, _, _, _)
SeparationScan(bs, i, j, acc) ==
    IF j > Len(bs) THEN acc
    ELSE LET d == dist(bs[i].position, bs[j].position)
         IN  IF IsOther(i, j) /\ InSeparationRange(d)
             THEN SeparationScan(bs, i, j + 1,
                    [steering |-> add(acc.steering, SeparationDiff(bs[i], bs[j], d)),
                     total |-> acc.total + 1])
             ELSE SeparationScan(bs, i, j + 1, acc)

\* The tail shared by the three rules: average is already taken;
\* steering.setMag(MAX_SPEED); steering.sub(this.velocity); steering.limit(MAX_FORCE)
Steer(desired, velocity) == limit(sub(setMag(desired, MAX_SPEED), velocity), MAX_FORCE)

separation(bs, i) ==
    LET r == SeparationScan(bs, i, 1, [steering |-> Zero, total |-> 0])
    IN  IF r.total > 0
        THEN Steer(div(r.steering, r.total * SCALE), bs[i].velocity)
        ELSE r.steering

RECURSIVE AlignmentScan(_, _, _, _, _)
AlignmentScan(bs, i, P, j, acc) ==
    IF j > Len(bs) THEN acc
    ELSE IF IsOther(i, j) /\ InPerception(dist(bs[i].position, bs[j].position), P)
         THEN AlignmentScan(bs, i, P, j + 1,
                [steering |-> add(acc.steering, bs[j].velocity),
                 total |-> acc.total + 1])
         ELSE AlignmentScan(bs, i, P, j + 1, acc)

alignment(bs, i, P) ==
    LET r == AlignmentScan(bs, i, P, 1, [steering |-> Zero, total |-> 0])
    IN  IF r.total > 0
        THEN Steer(div(r.steering, r.total * SCALE), bs[i].velocity)
        ELSE r.steering

RECURSIVE CohesionScan(_, _, _, _, _)
CohesionScan(bs, i, P, j, acc) ==
    IF j > Len(bs) THEN acc
    ELSE IF IsOther(i, j) /\ InPerception(dist(bs[i].position, bs[j].position), P)
         THEN CohesionScan(bs, i, P, j + 1,
                [steering |-> add(acc.steering, bs[j].position),
                 total |-> acc.total + 1])
         ELSE CohesionScan(bs, i, P, j + 1, acc)

cohesion(bs, i, P) ==
    LET r == CohesionScan(bs, i, P, 1, [steering |-> Zero, total |-> 0])
    IN  IF r.total > 0
        THEN Steer(sub(div(r.steering, r.total * SCALE), bs[i].position),
                   bs[i].velocity)
        ELSE r.steering

\* this.acceleration after applyForce(force)
applyForce(b, force) == [b EXCEPT !.acceleration = add(b.acceleration, force)]

\* this after flock(boids): the three rules, weighted, applied in order
flock(bs, i, P, wSep, wAli, wCoh) ==
    LET sep == mult(separation(bs, i), wSep)
        ali == mult(alignment(bs, i, P), wAli)
        coh == mult(cohesion(bs, i, P), wCoh)
    IN  applyForce(applyForce(applyForce(bs[i], sep), ali), coh)

\* ------------------------------------------------------------------------
\* Boid: orb forces
\* ------------------------------------------------------------------------

\* (mutant of OrbInRange: the range is PERCEPTION_RADIUS, not twice it)
OrbInRangeHalf(d, P) == FGt(d, SCALE) /\ FLt(d, P)

\* d > 1 && d < PERCEPTION_RADIUS * 2
OrbInRange(d, P) == FGt(d, SCALE) /\ FLt(d, FMul(P, 2 * SCALE))

\* (mutant of OrbStrength: the two orb types exchanged)
OrbStrengthSwapped(type, d) ==
    IF type = "attractor" THEN FDiv(FNeg(ORB_STRENGTH), d) ELSE FDiv(ORB_STRENGTH, d)

\* strength: ORB_STRENGTH / d for an attractor, -ORB_STRENGTH / d otherwise
OrbStrength(type, d) ==
    IF type = "attractor" THEN FDiv(ORB_STRENGTH, d) ELSE FDiv(FNeg(ORB_STRENGTH), d)

\* diff = orb.position.copy().sub(this.position).normalize()
OrbDirection(b, orb) == normalize(sub(copy(orb.position), b.position))

\* force.limit(MAX_FORCE), the vector handed to applyForce for an orb in range
OrbForce(b, orb) ==
    LET d == dist(b.position, orb.position)
    IN  limit(mult(OrbDirection(b, orb), OrbStrength(orb.type, d)), MAX_FORCE)

RECURSIVE OrbScan(_, _, _, _)
OrbScan(b, os, P, k) ==
    IF k > Len(os) THEN b
    ELSE IF OrbInRange(dist(b.position, os[k].position), P)
         THEN OrbScan(applyForce(b, OrbForce(b, os[k])), os, P, k + 1)
         ELSE OrbScan(b, os, P, k + 1)

\* this after applyOrbForces(orbs)
applyOrbForces(b, os, P) == OrbScan(b, os, P, 1)

\* ------------------------------------------------------------------------
\* Boid: integration and boundaries
\* ------------------------------------------------------------------------

\* this after update()
update(b) ==
    LET v == limit(add(b.velocity, b.acceleration), MAX_SPEED)
    IN  [b EXCEPT !.velocity = v,
                  !.position = add(b.position, v),
                  !.acceleration = mult(b.acceleration, 0)]

\* (mutant of WrapCoord: the coordinate is clamped to the edge it crossed)
WrapCoordClamp(p, extent) ==
    IF FGt(p, extent) THEN extent ELSE IF FLt(p, 0) THEN 0 ELSE p

\* wrap branch, one coordinate: p > extent gives 0, p < 0 gives extent
WrapCoord(p, extent) ==
    IF FGt(p, extent) THEN 0 ELSE IF FLt(p, 0) THEN extent ELSE p

\* bounce branch, one coordinate: the new coordinate
BounceCoord(p, extent) ==
    IF FGt(p, extent) THEN FSub(extent, SCALE) ELSE IF FLt(p, 0) THEN SCALE ELSE p

\* (mutant of BounceVel: the velocity is not reflected)
BounceVelKeep(p, v, extent) == v

\* bounce branch, one coordinate: the new velocity component (v *= -1 on a crossing)
BounceVel(p, v, extent) ==
    IF FGt(p, extent) \/ FLt(p, 0) THEN FMul(v, -SCALE) ELSE v

\* this after edges(wrap)
edges(b, wrapArg, cv) ==
    IF wrapArg
    THEN [b EXCEPT !.position = [x |-> WrapCoord(b.position.x, cv.width),
                                 y |-> WrapCoord(b.position.y, cv.height)]]
    ELSE [b EXCEPT !.position = [x |-> BounceCoord(b.position.x, cv.width),
                                 y |-> BounceCoord(b.position.y, cv.height)],
                   !.velocity = [x |-> BounceVel(b.position.x, b.velocity.x, cv.width),
                                 y |-> BounceVel(b.position.y, b.velocity.y, cv.height)]]

\* ------------------------------------------------------------------------
\* The same computations with the objects they work on.  Every Vector method
\* but copy() and dist() changes its receiver in place and returns it, so what
\* a rule does to the population depends on which object each call is made on.
\* A heap holds the Vector objects a computation can reach: the fields of the
\* boids, the positions of the orbs, and the temporaries it creates.  An
\* object is named by a reference << kind, index >>.
\* ------------------------------------------------------------------------

Heap(bs, os) ==
    [boids |-> bs, orbs |-> os, steering |-> << Zero, Zero, Zero >>, diff |-> Zero]

\* the value of the object r names
Get(h, r) ==
    CASE r[1] = "position" -> h.boids[r[2]].position
      [] r[1] = "velocity" -> h.boids[r[2]].velocity
      [] r[1] = "acceleration" -> h.boids[r[2]].acceleration
      [] r[1] = "orb" -> h.orbs[r[2]].position
      [] r[1] = "steering" -> h.steering[r[2]]
      [] OTHER -> h.diff

\* the heap after an assignment to the components of the object r names
Put(h, r, v) ==
    CASE r[1] = "position" -> [h EXCEPT !.boids[r[2]].position = v]
      [] r[1] = "velocity" -> [h EXCEPT !.boids[r[2]].velocity = v]
      [] r[1] = "acceleration" -> [h EXCEPT !.boids[r[2]].acceleration = v]
      [] r[1] = "orb" -> [h EXCEPT !.orbs[r[2]].position = v]
      [] r[1] = "steering" -> [h EXCEPT !.steering[r[2]] = v]
      [] OTHER -> [h EXCEPT !.diff = v]

\* r.add(o), r.sub(o), r.mult(s), r.div(s), r.normalize(), r.setMag(m), r.limit(max)
addIn(h, r, o) == Put(h, r, add(Get(h, r), Get(h, o)))

subIn(h, r, o) == Put(h, r, sub(Get(h, r), Get(h, o)))

multIn(h, r, scalar) == Put(h, r, mult(Get(h, r), scalar))

divIn(h, r, scalar) == Put(h, r, div(Get(h, r), scalar))

normalizeIn(h, r) == Put(h, r, normalize(Get(h, r)))

setMagIn(h, r, m) == Put(h, r, setMag(Get(h, r), m))

limitIn(h, r, max) == Put(h, r, limit(Get(h, r), max))

\* (mutant of CopyOf: no copy is taken, the call works on the object itself)
CopyOfAlias(r, fresh) == r

\* The object r.copy() returns: a new Vector, here the temporary `fresh`
CopyOf(r, fresh) == fresh

\* The heap after r.copy(): the new object holds r's components
copyIn(h, r, fresh) == Put(h, fresh, copy(Get(h, r)))

DiffRef == << "diff", 0 >>

RECURSIVE SeparationLoop(_, _, _, _, _)
\* the loop of separation(): S names `steering`
SeparationLoop(h, i, S, j, total) ==
    IF j > Len(h.boids) THEN [heap |-> h, total |-> total]
    ELSE LET this == << "position", i >>
             other == << "position", j >>
             d == dist(Get(h, this), Get(h, other))
         IN  IF IsOther(i, j) /\ InSeparationRange(d)
             THEN LET diff == CopyOf(this, DiffRef)
                      h1 == subIn(copyIn(h, this, DiffRef), diff, other)
                      h2 == divIn(h1, diff, FMul(d, d))
                  IN  SeparationLoop(addIn(h2, S, diff), i, S, j + 1, total + 1)
             ELSE SeparationLoop(h, i, S, j + 1, total)

\* steering.setMag(MAX_SPEED); steering.sub(this.velocity); steering.limit(MAX_FORCE)
SteerIn(h, i, S) ==
    limitIn(subIn(setMagIn(h, S, MAX_SPEED), S, << "velocity", i >>), S, MAX_FORCE)

\* the heap after this.separation(boids), its result in the new object S
separationIn(h, i, S) ==
    LET r == SeparationLoop(Put(h, S, Vector(0, 0)), i, S, 1, 0)
    IN  IF r.total > 0
        THEN SteerIn(divIn(r.heap, S, r.total * SCALE), i, S)
        ELSE r.heap

RECURSIVE AlignmentLoop(_, _, _, _, _, _)
AlignmentLoop(h, i, P, S, j, total) ==
    IF j > Len(h.boids) THEN [heap |-> h, total |-> total]
    ELSE IF /\ IsOther(i, j)
            /\ InPerception(dist(Get(h, << "position", i >>), Get(h, << "position", j >>)), P)
         THEN AlignmentLoop(addIn(h, S, << "velocity", j >>), i, P, S, j + 1, total + 1)
         ELSE AlignmentLoop(h, i, P, S, j + 1, total)

\* the heap after this.alignment(boids), its result in the new object S
alignmentIn(h, i, P, S) ==
    LET r == AlignmentLoop(Put(h, S, Vector(0, 0)), i, P, S, 1, 0)
    IN  IF r.total > 0
        THEN SteerIn(divIn(r.heap, S, r.total * SCALE), i, S)
        ELSE r.heap

RECURSIVE CohesionLoop(_, _, _, _, _, _)
CohesionLoop(h, i, P, S, j, total) ==
    IF j > Len(h.boids) THEN [heap |-> h, total |-> total]
    ELSE IF /\ IsOther(i, j)
            /\ InPerception(dist(Get(h, << "position", i >>), Get(h, << "position", j >>)), P)
         THEN CohesionLoop(addIn(h, S, << "position", j >>), i, P, S, j + 1, total + 1)
         ELSE CohesionLoop(h, i, P, S, j + 1, total)

\* the heap after this.cohesion(boids), its result in the new object S
cohesionIn(h, i, P, S) ==
    LET r == CohesionLoop(Put(h, S, Vector(0, 0)), i, P, S, 1, 0)
    IN  IF r.total > 0
        THEN SteerIn(subIn(divIn(r.heap, S, r.total * SCALE), S, << "position", i >>), i, S)
        ELSE r.heap

\* this.applyForce(force): this.acceleration.add(force)
applyForceIn(h, i, force) == addIn(h, << "acceleration", i >>, force)

\* the heap after this.flock(boids)
flockIn(h, i, P, wSep, wAli, wCoh) ==
    LET sep == << "steering", 1 >>
        ali == << "steering", 2 >>
        coh == << "steering", 3 >>
        h1 == cohesionIn(alignmentIn(separationIn(h, i, sep), i, P, ali), i, P, coh)
        h2 == multIn(multIn(multIn(h1, sep, wSep), ali, wAli), coh, wCoh)
    IN  applyForceIn(applyForceIn(applyForceIn(h2, i, sep), i, ali), i, coh)

RECURSIVE OrbLoop(_, _, _, _)
\* the loop of applyOrbForces(): `force` is diff.mult(strength), the object diff
OrbLoop(h, i, P, k) ==
    IF k > Len(h.orbs) THEN h
    ELSE LET this == << "position", i >>
             d == dist(Get(h, this), Get(h, << "orb", k >>))
         IN  IF OrbInRange(d, P)
             THEN LET diff == CopyOf(<< "orb", k >>, DiffRef)
                      h1 == subIn(copyIn(h, << "orb", k >>, DiffRef), diff, this)
                      h2 == multIn(normalizeIn(h1, diff), diff, OrbStrength(h.orbs[k].type, d))
                  IN  OrbLoop(applyForceIn(limitIn(h2, diff, MAX_FORCE), i, diff), i, P, k + 1)
             ELSE OrbLoop(h, i, P, k + 1)

\* the heap after this.applyOrbForces(orbs)
applyOrbForcesIn(h, i, P) == OrbLoop(h, i, P, 1)

\* ------------------------------------------------------------------------
\* Bounds of the model and the inputs it enumerates
\* ------------------------------------------------------------------------

\* the largest population the numBoids slider (and the reset button) gives
MaxBoids == 2

\* the number of animate() calls explored
MaxFrames == 3

\* the number of UI events (and layout changes) explored
MaxEvents == 2

\* the canvas' layout box (getBoundingClientRect), in pixels, with its origin
\* in the viewport: a laid-out canvas and a canvas collapsed to no area
RectSizes == { [left |-> 8 * SCALE, top |-> 8 * SCALE,
                width |-> 20 * SCALE, height |-> 16 * SCALE],
               [left |-> 8 * SCALE, top |-> 8 * SCALE, width |-> 0, height |-> 0] }

\* Values of Math.random() in a Boid's constructor: the two draws of the
\* position and the two draws of the velocity, in [0, 1)
Draws ==
    { [px |-> 500, py |-> 500, vx |-> 500, vy |-> 500],   \* centre, at rest
      [px |-> 550, py |-> 500, vx |-> 500, vy |-> 500],   \* 1 pixel to its right, at rest
      [px |-> 950, py |-> 950, vx |-> 999, vy |-> 999],   \* lower right corner, leaving
      [px |-> 50,  py |-> 50,  vx |-> 0,   vy |-> 0] }    \* upper left corner, leaving

\* Values of the three weight sliders (parseFloat of the slider's value)
WeightChoices == {2 * SCALE}

\* Values of the perception slider (parseInt of the slider's value)
PercepChoices == {5 * SCALE}

\* event.button of a mousedown: primary, auxiliary, secondary
Buttons == {0, 1, 2}

\* Pointer positions of a mousedown in the viewport (event.clientX, event.clientY)
MousePositions == { [x |-> 18 * SCALE, y |-> 16 * SCALE + 500],
                    [x |-> 11 * SCALE, y |-> 21 * SCALE] }

\* ------------------------------------------------------------------------
\* State
\* ------------------------------------------------------------------------

VARIABLES
    boids,              \* the population: a sequence of Boid objects
    orbs,               \* the orbs placed since the last initSimulation()
    NUM_BOIDS, PERCEPTION_RADIUS, wrap,
    SEPARATION_WEIGHT, ALIGNMENT_WEIGHT, COHESION_WEIGHT,
    canvas,             \* canvas.width, canvas.height
    rect,               \* canvas.getBoundingClientRect()
    animationFrameId,   \* the last id requestAnimationFrame returned; 0: undefined
    pending,            \* ids of the animation-frame callbacks not yet run or cancelled
    pc,                 \* where the script is: "start" (before the initial setup),
                        \* "idle" (between handlers), or inside animate()'s loop
    cur,                \* index of the boid animate()'s loop is at
    caller,             \* who called the running (or last) animate(): the handler
                        \* that ran initSimulation() ("setup", "numBoids", "reset")
                        \* or the browser's animation frame ("raf")
    frames,             \* calls of animate() so far
    events,             \* UI events so far
    handled,            \* what the browser dispatched last: the script itself
                        \* ("load"), an animation frame, or a UI event with the
                        \* value it carried
    frameStart,         \* the population as it was when the running animate()
                        \* entered its loop; empty outside the loop
    flappy,             \* the physics bird game (src/script.js): its variables
    typing              \* the typing bird game (part_000, second script): its
                        \* variables

vars == << boids, orbs, NUM_BOIDS, PERCEPTION_RADIUS, wrap, SEPARATION_WEIGHT,
           ALIGNMENT_WEIGHT, COHESION_WEIGHT, canvas, rect, animationFrameId,
           pending, pc, cur, caller, frames, events, handled, frameStart,
           flappy, typing >>

\* The boids page's own state
simulation == << boids, orbs, NUM_BOIDS, PERCEPTION_RADIUS, wrap, SEPARATION_WEIGHT,
                 ALIGNMENT_WEIGHT, COHESION_WEIGHT, canvas, rect, animationFrameId,
                 pending, pc, cur, caller, frames, events, handled, frameStart >>

\* The two bird games are pages of their own: no step of the boids page
\* touches them
games == << flappy, typing >>

params == << NUM_BOIDS, PERCEPTION_RADIUS, wrap, SEPARATION_WEIGHT,
             ALIGNMENT_WEIGHT, COHESION_WEIGHT >>

\* What the reset handler assigns
DEFAULT_NUM_BOIDS == MaxBoids      \* 500 in the source, scaled to the model's bound

DEFAULT_SEPARATION_WEIGHT == SCALE + SCALE \div 2

DEFAULT_ALIGNMENT_WEIGHT == SCALE

DEFAULT_COHESION_WEIGHT == SCALE

DEFAULT_PERCEPTION_RADIUS == 50 * SCALE

\* canvas.width, canvas.height as animate() sets them from the layout box
BoxSize(box) == [width |-> box.width, height |-> box.height]

\* The record kept of a dispatch: its type, the slider value it carried, and
\* for a mousedown its button and viewport position (0 where it has none)
Dispatched(type, value, button, clientX, clientY) ==
    [type |-> type, value |-> value, button |-> button,
     clientX |-> clientX, clientY |-> clientY]

\* new Boid(): r holds the four values of Math.random(), cv is the canvas, born
\* tells the objects of one initSimulation() from those of another
Boid(r, cv, born) ==
    [position |-> Vector(FMul(r.px, cv.width), FMul(r.py, cv.height)),
     velocity |-> limit(Vector(FSub(FMul(r.vx, 4 * SCALE), 2 * SCALE),
                               FSub(FMul(r.vy, 4 * SCALE), 2 * SCALE)), MAX_SPEED),
     acceleration |-> Vector(0, 0),
     born |-> born]

\* ------------------------------------------------------------------------
\* The two bird games: constants and initial state
\* ------------------------------------------------------------------------

\* The physics game's canvas (the page gives its size), in pixels
FlappyCanvas == [width |-> 400, height |-> 300]

\* bird.x, bird.width, bird.height, bird.gravity (0.5), bird.jumpStrength
FlappyBird ==
    [x |-> 100 * SCALE, width |-> 30 * SCALE, height |-> 30 * SCALE,
     gravity |-> SCALE \div 2, jumpStrength |-> -10 * SCALE]

\* The state of script.js when it has loaded.  Lengths are in SCALE units per
\* pixel; frames and keys count the update() calls that ran and the keydown
\* events so far, code the event.code of the last one.
FlappyStart ==
    [gameOver |-> FALSE, score |-> 0, gameStarted |-> FALSE,
     bird |-> [y |-> (FlappyCanvas.height * SCALE) \div 2, velocity |-> 0],
     pipes |-> << >>, pipeSpawnTimer |-> 0, frames |-> 0, keys |-> 0, code |-> ""]

\* The typing game's canvas, in pixels
TypingCanvas == [width |-> 304, height |-> 400]

\* bird.x, bird.width, bird.height of the typing game
TypingBird == [x |-> 100, width |-> 30, height |-> 30]

\* The state of the typing game's script when it has loaded, in pixels.
\* currentTypedWord is the sequence of its characters; activePipeIndex counts
\* from 0 as in the script.  frames, keys and shifts count the update() calls
\* of a running game, the keydown events and the pipes.shift() calls so far.
TypingStart ==
    [gameOver |-> FALSE, score |-> 0, gameStarted |-> FALSE,
     currentTypedWord |-> << >>, activePipeIndex |-> -1,
     bird |-> [y |-> TypingCanvas.height \div 2],
     pipes |-> << >>, pipeSpawnTimer |-> 0, frames |-> 0, keys |-> 0, shifts |-> 0]

Init ==
    /\ boids = << >>
    /\ orbs = << >>
    /\ NUM_BOIDS \in 0..MaxBoids
    /\ PERCEPTION_RADIUS = DEFAULT_PERCEPTION_RADIUS
    /\ wrap = TRUE
    /\ SEPARATION_WEIGHT = DEFAULT_SEPARATION_WEIGHT
    /\ ALIGNMENT_WEIGHT = DEFAULT_ALIGNMENT_WEIGHT
    /\ COHESION_WEIGHT = DEFAULT_COHESION_WEIGHT
    /\ rect = [left |-> 8 * SCALE, top |-> 8 * SCALE,
               width |-> 20 * SCALE, height |-> 16 * SCALE]
    /\ canvas = BoxSize(rect)
    /\ animationFrameId = 0
    /\ pending = {}
    /\ pc = "start"
    /\ cur = 1
    /\ caller = "setup"
    /\ frames = 0
    /\ events = 0
    /\ handled = Dispatched("load", 0, 0, 0, 0)
    /\ frameStart = << >>
    /\ flappy = FlappyStart
    /\ typing = TypingStart

\* ------------------------------------------------------------------------
\* animate(), one step of its loop at a time.  The script is single-threaded:
\* no handler runs while pc is inside the loop.
\* ------------------------------------------------------------------------

\* The head of animate(): the canvas takes the size of its layout box; bs is
\* the population the loop will run over
AnimateEnter(bs, who) ==
    /\ canvas' = BoxSize(rect)
    /\ frameStart' = bs
    /\ frames' = frames + 1
    /\ caller' = who
    /\ cur' = 1
    /\ pc' = IF Len(bs) = 0 THEN "request" ELSE "flock"
    /\ UNCHANGED games

\* (mutant of FlockStep: the rules read the population as it was when the
\* frame began, not the container being updated)
FlockStepFromSnapshot ==
    /\ pc = "flock"
    /\ boids' = [boids EXCEPT ![cur] =
                    flockIn(Heap(frameStart, orbs), cur, PERCEPTION_RADIUS,
                       SEPARATION_WEIGHT, ALIGNMENT_WEIGHT, COHESION_WEIGHT).boids[cur]]
    /\ pc' = "orbs"
    /\ UNCHANGED << orbs, params, canvas, rect, animationFrameId, pending, cur,
                    caller, frames, events, handled, frameStart, games >>

\* boid.flock(boids)
FlockStep ==
    /\ pc = "flock"
    /\ boids' = flockIn(Heap(boids, orbs), cur, PERCEPTION_RADIUS,
                        SEPARATION_WEIGHT, ALIGNMENT_WEIGHT, COHESION_WEIGHT).boids
    /\ pc' = "orbs"
    /\ UNCHANGED << orbs, params, canvas, rect, animationFrameId, pending, cur,
                    caller, frames, events, handled, frameStart, games >>

\* boid.applyOrbForces(orbs)
OrbStep ==
    /\ pc = "orbs"
    /\ LET h == applyOrbForcesIn(Heap(boids, orbs), cur, PERCEPTION_RADIUS)
       IN  boids' = h.boids /\ orbs' = h.orbs
    /\ pc' = "update"
    /\ UNCHANGED << params, canvas, rect, animationFrameId, pending, cur,
                    caller, frames, events, handled, frameStart, games >>

\* boid.update()
UpdateStep ==
    /\ pc = "update"
    /\ boids' = [boids EXCEPT ![cur] = update(boids[cur])]
    /\ pc' = "edges"
    /\ UNCHANGED << orbs, params, canvas, rect, animationFrameId, pending, cur,
                    caller, frames, events, handled, frameStart, games >>

\* (mutant of EdgesStep: the loop goes on to the next boid without edges())
EdgesStepNoEdges ==
    /\ pc = "edges"
    /\ IF cur < Len(boids)
       THEN cur' = cur + 1 /\ pc' = "flock"
       ELSE cur' = cur /\ pc' = "request"
    /\ UNCHANGED << boids, orbs, params, canvas, rect, animationFrameId, pending,
                    caller, frames, events, handled, frameStart, games >>

\* boid.edges(wrap); boid.draw() changes nothing; then the next boid, or the
\* end of the loop
EdgesStep ==
    /\ pc = "edges"
    /\ boids' = [boids EXCEPT ![cur] = edges(boids[cur], wrap, canvas)]
    /\ IF cur < Len(boids)
       THEN cur' = cur + 1 /\ pc' = "flock"
       ELSE cur' = cur /\ pc' = "request"
    /\ UNCHANGED << orbs, params, canvas, rect, animationFrameId, pending,
                    caller, frames, events, handled, frameStart, games >>

\* animationFrameId = requestAnimationFrame(animate), the last line of animate()
RequestFrame ==
    /\ pc = "request"
    /\ animationFrameId' = frames
    /\ pending' = pending \cup {frames}
    /\ pc' = "idle"
    /\ frameStart' = << >>
    /\ UNCHANGED << boids, orbs, params, canvas, rect, cur, caller, frames, events,
                    handled, games >>

\* The browser runs a pending animation-frame callback
AnimationFrame ==
    /\ pc = "idle"
    /\ frames < MaxFrames
    /\ \E id \in pending :
          /\ pending' = pending \ {id}
          /\ AnimateEnter(boids, "raf")
    /\ handled' = Dispatched("frame", 0, 0, 0, 0)
    /\ UNCHANGED << boids, orbs, params, rect, animationFrameId, events >>

\* ------------------------------------------------------------------------
\* initSimulation() and the handlers
\* ------------------------------------------------------------------------

\* (mutant of initSimulation: the pending animation frame is not cancelled)
initSimulationNoCancel(n, who) ==
    /\ frames < MaxFrames
    /\ pending' = pending
    /\ orbs' = << >>
    /\ \E r \in [1..n -> Draws] :
          /\ boids' = [k \in 1..n |-> Boid(r[k], canvas, frames + 1)]
          /\ AnimateEnter(boids', who)
    /\ UNCHANGED << rect, animationFrameId >>

\* initSimulation() with NUM_BOIDS = n, up to its call of animate(), whose loop
\* then runs before the handler returns
initSimulation(n, who) ==
    /\ frames < MaxFrames
    /\ pending' = pending \ {animationFrameId}
    /\ orbs' = << >>
    /\ \E r \in [1..n -> Draws] :
          /\ boids' = [k \in 1..n |-> Boid(r[k], canvas, frames + 1)]
          /\ AnimateEnter(boids', who)
    /\ UNCHANGED << rect, animationFrameId >>

\* Initial setup: the initSimulation() call that ends the script
Setup ==
    /\ pc = "start"
    /\ initSimulation(NUM_BOIDS, "setup")
    /\ UNCHANGED << params, events, handled >>

\* A UI event is handled between two handlers
Event ==
    /\ pc = "idle"
    /\ events < MaxEvents
    /\ events' = events + 1
    /\ UNCHANGED games

\* numBoidsSlider 'input'
NumBoidsInput(n) ==
    /\ Event
    /\ handled' = Dispatched("numBoids", n, 0, 0, 0)
    /\ NUM_BOIDS' = n
    /\ initSimulation(n, "numBoids")
    /\ UNCHANGED << PERCEPTION_RADIUS, wrap, SEPARATION_WEIGHT, ALIGNMENT_WEIGHT,
                    COHESION_WEIGHT >>

\* (mutant of SeparationInput: the handler re-initialises the simulation, as
\* the population slider's does)
SeparationInputRebuild(w) ==
    /\ Event
    /\ handled' = Dispatched("separation", w, 0, 0, 0)
    /\ SEPARATION_WEIGHT' = w
    /\ initSimulation(NUM_BOIDS, "numBoids")
    /\ UNCHANGED << NUM_BOIDS, PERCEPTION_RADIUS, wrap, ALIGNMENT_WEIGHT,
                    COHESION_WEIGHT >>

\* separationSlider 'input'
SeparationInput(w) ==
    /\ Event
    /\ handled' = Dispatched("separation", w, 0, 0, 0)
    /\ SEPARATION_WEIGHT' = w
    /\ UNCHANGED << boids, orbs, NUM_BOIDS, PERCEPTION_RADIUS, wrap, ALIGNMENT_WEIGHT,
                    COHESION_WEIGHT, canvas, rect, animationFrameId, pending, pc,
                    cur, caller, frames, frameStart >>

\* alignmentSlider 'input'
AlignmentInput(w) ==
    /\ Event
    /\ handled' = Dispatched("alignment", w, 0, 0, 0)
    /\ ALIGNMENT_WEIGHT' = w
    /\ UNCHANGED << boids, orbs, NUM_BOIDS, PERCEPTION_RADIUS, wrap, SEPARATION_WEIGHT,
                    COHESION_WEIGHT, canvas, rect, animationFrameId, pending, pc,
                    cur, caller, frames, frameStart >>

\* cohesionSlider 'input'
CohesionInput(w) ==
    /\ Event
    /\ handled' = Dispatched("cohesion", w, 0, 0, 0)
    /\ COHESION_WEIGHT' = w
    /\ UNCHANGED << boids, orbs, NUM_BOIDS, PERCEPTION_RADIUS, wrap, SEPARATION_WEIGHT,
                    ALIGNMENT_WEIGHT, canvas, rect, animationFrameId, pending, pc,
                    cur, caller, frames, frameStart >>

\* percepSlider 'input'
PercepInput(p) ==
    /\ Event
    /\ handled' = Dispatched("percep", p, 0, 0, 0)
    /\ PERCEPTION_RADIUS' = p
    /\ UNCHANGED << boids, orbs, NUM_BOIDS, wrap, SEPARATION_WEIGHT, ALIGNMENT_WEIGHT,
                    COHESION_WEIGHT, canvas, rect, animationFrameId, pending, pc,
                    cur, caller, frames, frameStart >>

\* wrapAround 'click'
WrapClick ==
    /\ Event
    /\ handled' = Dispatched("wrap", 0, 0, 0, 0)
    /\ wrap' = ~wrap
    /\ UNCHANGED << boids, orbs, NUM_BOIDS, PERCEPTION_RADIUS, SEPARATION_WEIGHT,
                    ALIGNMENT_WEIGHT, COHESION_WEIGHT, canvas, rect, animationFrameId,
                    pending, pc, cur, caller, frames, frameStart >>

\* resetButton 'click'
ResetClick ==
    /\ Event
    /\ handled' = Dispatched("reset", 0, 0, 0, 0)
    /\ NUM_BOIDS' = DEFAULT_NUM_BOIDS
    /\ SEPARATION_WEIGHT' = DEFAULT_SEPARATION_WEIGHT
    /\ ALIGNMENT_WEIGHT' = DEFAULT_ALIGNMENT_WEIGHT
    /\ COHESION_WEIGHT' = DEFAULT_COHESION_WEIGHT
    /\ PERCEPTION_RADIUS' = DEFAULT_PERCEPTION_RADIUS
    /\ initSimulation(DEFAULT_NUM_BOIDS, "reset")
    /\ UNCHANGED wrap

\* (mutant of NewOrbs: the buttons as the handler's comments name them, the
\* primary button placing the attractor)
NewOrbsAsCommented(button, m) ==
    IF button = 0
    THEN << [position |-> Vector(m.x, m.y), radius |-> ORB_RADIUS, type |-> "attractor"] >>
    ELSE IF button = 2
    THEN << [position |-> Vector(m.x, m.y), radius |-> ORB_RADIUS, type |-> "repulsor"] >>
    ELSE << >>

\* What a mousedown with this button appends to orbs
NewOrbs(button, m) ==
    IF button = 2
    THEN << [position |-> Vector(m.x, m.y), radius |-> ORB_RADIUS, type |-> "attractor"] >>
    ELSE IF button = 0
    THEN << [position |-> Vector(m.x, m.y), radius |-> ORB_RADIUS, type |-> "repulsor"] >>
    ELSE << >>

\* mouseX, mouseY: the pointer relative to the canvas' layout box
PointerOnCanvas(client, box) ==
    [x |-> FSub(client.x, box.left), y |-> FSub(client.y, box.top)]

\* (mutant of MouseDown: the new orb replaces the container instead of being
\* pushed onto it)
MouseDownReplace(button, m) ==
    /\ Event
    /\ handled' = Dispatched("mousedown", 0, button, m.x, m.y)
    /\ orbs' = NewOrbs(button, PointerOnCanvas(m, rect))
    /\ UNCHANGED << boids, params, canvas, rect, animationFrameId, pending, pc, cur,
                    caller, frames, frameStart >>

\* canvas 'mousedown' (the 'contextmenu' handler only suppresses the menu)
MouseDown(button, m) ==
    /\ Event
    /\ handled' = Dispatched("mousedown", 0, button, m.x, m.y)
    /\ orbs' = orbs \o NewOrbs(button, PointerOnCanvas(m, rect))
    /\ UNCHANGED << boids, params, canvas, rect, animationFrameId, pending, pc, cur,
                    caller, frames, frameStart >>

\* The page's layout changes the canvas' box (animate() reads it every frame)
Layout(box) ==
    /\ Event
    /\ handled' = Dispatched("layout", 0, 0, 0, 0)
    /\ rect' = box
    /\ UNCHANGED << boids, orbs, params, canvas, animationFrameId, pending, pc, cur,
                    caller, frames, frameStart >>

Next ==
    \/ Setup
    \/ FlockStep
    \/ OrbStep
    \/ UpdateStep
    \/ EdgesStep
    \/ RequestFrame
    \/ AnimationFrame
    \/ \E n \in 0..MaxBoids : NumBoidsInput(n)
    \/ \E w \in WeightChoices : SeparationInput(w)
    \/ \E w \in WeightChoices : AlignmentInput(w)
    \/ \E w \in WeightChoices : CohesionInput(w)
    \/ \E p \in PercepChoices : PercepInput(p)
    \/ WrapClick
    \/ ResetClick
    \/ \E b \in Buttons, m \in MousePositions : MouseDown(b, m)
    \/ \E box \in RectSizes : Layout(box)

Spec == Init /\ [][Next]_vars

\* ------------------------------------------------------------------------
\* The physics bird game (src/script.js).  gameLoop() calls update() and
\* draw() every animation frame; draw() changes no variable.
\* ------------------------------------------------------------------------

\* the number of update() calls of a running game explored
MaxFlappyFrames == 125

\* the number of keydown events explored
MaxFlappyKeys == 3

Flappy_pipeWidth == 50 * SCALE

Flappy_pipeGap == 150 * SCALE

Flappy_pipeSpeed == 3 * SCALE

Flappy_pipeSpawnInterval == 120

\* event.code of the keys pressed
FlappyCodes == {"Space", "KeyA"}

\* Values of Math.random() in createPipe(), in thousandths
FlappyDraws == {0, 999}

\* Math.floor(r * n) for r in thousandths
FloorRandom(r, n) == (r * n) \div 1000

\* The two pipes createPipe() pushes, r the value of Math.random()
Flappy_createPipe(r) ==
    LET minHeight == 50
        maxHeight == FlappyCanvas.height - 150 - minHeight
        topPipeHeight == (FloorRandom(r, maxHeight - minHeight + 1) + minHeight) * SCALE
    IN  << [x |-> FlappyCanvas.width * SCALE, y |-> 0, width |-> Flappy_pipeWidth,
            height |-> topPipeHeight, passed |-> FALSE],
           [x |-> FlappyCanvas.width * SCALE, y |-> topPipeHeight + Flappy_pipeGap,
            width |-> Flappy_pipeWidth,
            height |-> FlappyCanvas.height * SCALE - topPipeHeight - Flappy_pipeGap,
            passed |-> FALSE] >>

\* gameOver after checkCollision(): endGame() on leaving the canvas by the top
\* or bottom or on overlapping a pipe
Flappy_checkCollision(g) ==
    \/ g.gameOver
    \/ g.bird.y + FlappyBird.height > FlappyCanvas.height * SCALE
    \/ g.bird.y < 0
    \/ \E k \in 1..Len(g.pipes) :
          /\ FlappyBird.x < g.pipes[k].x + g.pipes[k].width
          /\ FlappyBird.x + FlappyBird.width > g.pipes[k].x
          /\ g.bird.y < g.pipes[k].y + g.pipes[k].height
          /\ g.bird.y + FlappyBird.height > g.pipes[k].y

\* checkScore(): every pipe behind the bird and not yet scored is scored
Flappy_Scored(pipe) == FlappyBird.x > pipe.x + pipe.width /\ ~pipe.passed

Flappy_checkScore(g) ==
    [g EXCEPT !.pipes = [k \in 1..Len(g.pipes) |->
                           IF Flappy_Scored(g.pipes[k])
                           THEN [g.pipes[k] EXCEPT !.passed = TRUE]
                           ELSE g.pipes[k]],
              !.score = g.score + Cardinality({k \in 1..Len(g.pipes) :
                                                 Flappy_Scored(g.pipes[k])})]

\* endGame()
Flappy_endGame(g) == [g EXCEPT !.gameOver = TRUE]

\* startGame()
Flappy_startGame(g) ==
    [g EXCEPT !.gameStarted = TRUE, !.gameOver = FALSE, !.score = 0,
              !.bird = [y |-> (FlappyCanvas.height * SCALE) \div 2, velocity |-> 0],
              !.pipes = << >>, !.pipeSpawnTimer = 0]

\* update() of a running game, r the value of Math.random() if a pipe is made
Flappy_update(g, r) ==
    LET velocity == g.bird.velocity + FlappyBird.gravity
        y == g.bird.y + velocity
        timer == g.pipeSpawnTimer + 1
        spawn == timer > Flappy_pipeSpawnInterval
        made == IF spawn THEN g.pipes \o Flappy_createPipe(r) ELSE g.pipes
        moved == [k \in 1..Len(made) |->
                    [made[k] EXCEPT !.x = made[k].x - Flappy_pipeSpeed]]
        kept == IF Len(moved) > 0 /\ moved[1].x + moved[1].width < 0
                THEN SubSeq(moved, 3, Len(moved))
                ELSE moved
        g1 == [g EXCEPT !.bird = [y |-> y, velocity |-> velocity],
                        !.pipeSpawnTimer = IF spawn THEN 0 ELSE timer,
                        !.pipes = kept]
        g2 == IF Flappy_checkCollision(g1) THEN Flappy_endGame(g1) ELSE g1
    IN  Flappy_checkScore(g2)

\* The keydown handler
Flappy_keydown(g, code) ==
    IF code = "Space"
    THEN LET g1 == IF ~g.gameStarted THEN Flappy_startGame(g) ELSE g
         IN  IF ~g1.gameOver
             THEN [g1 EXCEPT !.bird.velocity = FlappyBird.jumpStrength]
             ELSE g1
    ELSE g

\* document 'keydown'
FlappyKeydown(code) ==
    /\ flappy.keys < MaxFlappyKeys
    /\ flappy' = [Flappy_keydown(flappy, code) EXCEPT !.keys = flappy.keys + 1,
                                                      !.code = code]
    /\ UNCHANGED << simulation, typing >>

\* An animation frame: gameLoop() runs update(), which returns at once unless
\* the game is started and not over
FlappyFrame(r) ==
    /\ IF ~flappy.gameStarted \/ flappy.gameOver
       THEN flappy' = flappy
       ELSE /\ flappy.frames < MaxFlappyFrames
            /\ flappy' = [Flappy_update(flappy, r) EXCEPT !.frames = flappy.frames + 1]
    /\ UNCHANGED << simulation, typing >>

FlappyNext ==
    \/ \E code \in FlappyCodes : FlappyKeydown(code)
    \/ \E r \in FlappyDraws : FlappyFrame(r)

\* The game pages when their script has loaded: no boid is on them
GameInit == Init /\ NUM_BOIDS = 0

FlappySpec == GameInit /\ [][FlappyNext]_vars

\* ------------------------------------------------------------------------
\* The typing bird game (src/unnamed/part_000, from line 332).  gameLoop()
\* calls update() and draw() every animation frame; draw() changes no
\* variable.  Lengths are in pixels; a string is the sequence of its
\* characters.
\* ------------------------------------------------------------------------

\* the number of update() calls of a running game explored
MaxTypingFrames == 204

\* the number of keydown events explored
MaxTypingKeys == 4

\* the longest currentTypedWord explored
MaxTyped == 3

words ==
    << << "a", "p", "p", "l", "e" >>,
       << "b", "a", "n", "a", "n", "a" >>,
       << "o", "r", "a", "n", "g", "e" >>,
       << "g", "r", "a", "p", "e" >>,
       << "k", "i", "w", "i" >>,
       << "m", "e", "l", "o", "n" >>,
       << "p", "e", "a", "c", "h" >>,
       << "p", "l", "u", "m" >>,
       << "b", "e", "r", "r", "y" >>,
       << "l", "e", "m", "o", "n" >>,
       << "h", "o", "u", "s", "e" >>,
       << "c", "a", "r" >>,
       << "t", "r", "e", "e" >>,
       << "r", "i", "v", "e", "r" >>,
       << "c", "l", "o", "u", "d" >>,
       << "o", "c", "e", "a", "n" >>,
       << "m", "o", "u", "n", "t", "a", "i", "n" >>,
       << "f", "o", "r", "e", "s", "t" >>,
       << "d", "e", "s", "e", "r", "t" >>,
       << "i", "s", "l", "a", "n", "d" >>,
       << "h", "a", "p", "p", "y" >>,
       << "s", "a", "d" >>,
       << "b", "r", "a", "v", "e" >>,
       << "c", "a", "l", "m" >>,
       << "e", "a", "g", "e", "r" >>,
       << "f", "u", "n", "n", "y" >>,
       << "g", "e", "n", "t", "l", "e" >>,
       << "h", "u", "m", "b", "l", "e" >>,
       << "j", "o", "l", "l", "y" >>,
       << "k", "i", "n", "d" >>,
       << "q", "u", "i", "c", "k" >>,
       << "b", "r", "o", "w", "n" >>,
       << "f", "o", "x" >>,
       << "j", "u", "m", "p", "s" >>,
       << "o", "v", "e", "r" >>,
       << "l", "a", "z", "y" >>,
       << "d", "o", "g" >>,
       << "t", "h", "e" >>,
       << "c", "a", "t" >>,
       << "s", "u", "n" >> >>

Typing_pipeWidth == 100

Typing_pipeGap == 180

Typing_pipeSpeed == 2

Typing_pipeSpawnInterval == 200

\* Values of Math.random() for gapY in createPipe(), in thousandths
GapDraws == {0, 999}

\* Values of Math.random() for the word in createPipe(), in thousandths:
\* they select "car" and "cat"
WordDraws == {280, 960}

\* The keydown events explored: event.code and event.key
TypingKeys ==
    { [code |-> "Space", key |-> << " " >>],
      [code |-> "KeyC", key |-> << "c" >>],
      [code |-> "KeyC", key |-> << "C" >>],
      [code |-> "KeyA", key |-> << "a" >>],
      [code |-> "KeyR", key |-> << "r" >>],
      [code |-> "KeyT", key |-> << "t" >>],
      [code |-> "Backspace", key |-> << "B", "a", "c", "k", "s", "p", "a", "c", "e" >>],
      [code |-> "ShiftLeft", key |-> << "S", "h", "i", "f", "t" >>] }

\* The characters /[a-z]/ matches
LowerLetters ==
    { "a", "b", "c", "d", "e", "f", "g", "h", "i", "j", "k", "l", "m",
      "n", "o", "p", "q", "r", "s", "t", "u", "v", "w", "x", "y", "z" }

\* String.prototype.toLowerCase() on the characters of the keys explored
LowerChar(ch) ==
    CASE ch = "B" -> "b"
      [] ch = "C" -> "c"
      [] ch = "S" -> "s"
      [] OTHER -> ch

toLowerCase(str) == [k \in 1..Len(str) |-> LowerChar(str[k])]

\* str.slice(0, -1)
SliceLast(str) == IF Len(str) = 0 THEN str ELSE SubSeq(str, 1, Len(str) - 1)

\* pipes[i] is an object (not undefined)
Typing_HasPipe(g, i) == i >= 0 /\ i < Len(g.pipes)

\* pipes[i], i counted from 0
Typing_Pipe(g, i) == g.pipes[i + 1]

\* createPipe(), r1 and r2 its two values of Math.random()
Typing_createPipe(g, r1, r2) ==
    LET minGapY == 50
        maxGapY == TypingCanvas.height - Typing_pipeGap - 50
        gapY == FloorRandom(r1, maxGapY - minGapY + 1) + minGapY
        randomWord == words[FloorRandom(r2, Len(words)) + 1]
    IN  [g EXCEPT !.pipes = Append(g.pipes,
                                   [x |-> TypingCanvas.width, gapY |-> gapY,
                                    width |-> Typing_pipeWidth,
                                    gapHeight |-> Typing_pipeGap,
                                    word |-> randomWord, passed |-> FALSE])]

\* endGame()
Typing_endGame(g) == [g EXCEPT !.gameOver = TRUE, !.gameStarted = FALSE]

\* startGame()
Typing_startGame(g, r1, r2) ==
    Typing_createPipe([g EXCEPT !.gameStarted = TRUE, !.gameOver = FALSE, !.score = 0,
                                !.bird.y = TypingCanvas.height \div 2,
                                !.pipes = << >>, !.pipeSpawnTimer = 0,
                                !.currentTypedWord = << >>,
                                !.activePipeIndex = -1],
                      r1, r2)

\* checkCollision(): the active pipe is behind the bird and was not passed
Typing_checkCollision(g) ==
    IF /\ g.activePipeIndex # -1
       /\ Typing_HasPipe(g, g.activePipeIndex)
       /\ TypingBird.x > Typing_Pipe(g, g.activePipeIndex).x
                           + Typing_Pipe(g, g.activePipeIndex).width
       /\ ~Typing_Pipe(g, g.activePipeIndex).passed
    THEN Typing_endGame(g)
    ELSE g

\* pipes.findIndex(p => p.x + p.width > bird.x && !p.passed)
Typing_findIndex(pipes) ==
    LET found == {k \in 1..Len(pipes) :
                    pipes[k].x + pipes[k].width > TypingBird.x /\ ~pipes[k].passed}
    IN  IF found = {}
        THEN -1
        ELSE (CHOOSE k \in found : \A j \in found : k <= j) - 1

\* (mutant of Typing_shift: the index is not moved with the pipes)
Typing_shiftKeepIndex(g) ==
    [g EXCEPT !.pipes = Tail(g.pipes), !.shifts = g.shifts + 1]

\* update(), the removal of the leading pipe: pipes.shift() and the
\* adjustment of activePipeIndex
Typing_shift(g) ==
    [g EXCEPT !.pipes = Tail(g.pipes),
              !.shifts = g.shifts + 1,
              !.activePipeIndex = IF g.activePipeIndex = 0 THEN -1
                                  ELSE IF g.activePipeIndex > 0
                                       THEN g.activePipeIndex - 1
                                       ELSE g.activePipeIndex]

\* update(), r1 and r2 the values of Math.random() if a pipe is made
Typing_update(g, r1, r2) ==
    LET timer == g.pipeSpawnTimer + 1
        g1 == IF timer > Typing_pipeSpawnInterval
              THEN [Typing_createPipe(g, r1, r2) EXCEPT !.pipeSpawnTimer = 0]
              ELSE [g EXCEPT !.pipeSpawnTimer = timer]
        g2 == [g1 EXCEPT !.pipes = [k \in 1..Len(g1.pipes) |->
                                      [g1.pipes[k] EXCEPT !.x = g1.pipes[k].x
                                                                - Typing_pipeSpeed]]]
        nextPipeToType == Typing_findIndex(g2.pipes)
        g3 == IF g2.activePipeIndex = -1 /\ Len(g2.pipes) > 0 /\ nextPipeToType # -1
              THEN [g2 EXCEPT !.activePipeIndex = nextPipeToType]
              ELSE g2
    IN  IF ~g.gameStarted \/ g.gameOver
        THEN g
        ELSE IF Len(g3.pipes) > 0 /\ g3.pipes[1].x + g3.pipes[1].width < 0
             THEN IF ~g3.pipes[1].passed
                  THEN Typing_endGame(g3)
                  ELSE Typing_checkCollision(Typing_shift(g3))
             ELSE Typing_checkCollision(g3)

\* currentTypedWord after the key of event e
Typing_Typed(g, e) ==
    LET key == toLowerCase(e.key)
    IN  IF Len(key) = 1 /\ key[1] \in LowerLetters
        THEN g.currentTypedWord \o key
        ELSE IF e.code = "Backspace"
             THEN SliceLast(g.currentTypedWord)
             ELSE g.currentTypedWord

\* The keydown handler, r1 and r2 the values of Math.random() if it starts a
\* game
Typing_keydown(g, e, r1, r2) ==
    IF ~g.gameStarted /\ e.code = "Space"
    THEN Typing_startGame(g, r1, r2)
    ELSE IF g.gameOver
         THEN IF e.code = "Space" THEN Typing_startGame(g, r1, r2) ELSE g
         ELSE LET g1 == [g EXCEPT !.currentTypedWord = Typing_Typed(g, e)]
              IN  IF /\ g1.activePipeIndex # -1
                     /\ Typing_HasPipe(g1, g1.activePipeIndex)
                     /\ g1.currentTypedWord = Typing_Pipe(g1, g1.activePipeIndex).word
                  THEN LET targetPipe == Typing_Pipe(g1, g1.activePipeIndex)
                       IN  [g1 EXCEPT !.bird.y = targetPipe.gapY
                                                   + targetPipe.gapHeight \div 2
                                                   - TypingBird.height \div 2,
                                      !.pipes[g1.activePipeIndex + 1].passed = TRUE,
                                      !.score = g1.score + 1,
                                      !.currentTypedWord = << >>,
                                      !.activePipeIndex = -1]
                  ELSE g1

\* document 'keydown'
TypingKeydown(e, r1, r2) ==
    /\ typing.keys < MaxTypingKeys
    /\ typing' = [Typing_keydown(typing, e, r1, r2) EXCEPT !.keys = typing.keys + 1]
    /\ Len(typing'.currentTypedWord) <= MaxTyped
    /\ UNCHANGED << simulation, flappy >>

\* An animation frame: gameLoop() runs update(), which returns at once unless
\* the game is started and not over
TypingFrame(r1, r2) ==
    /\ IF ~typing.gameStarted \/ typing.gameOver
       THEN typing' = typing
       ELSE /\ typing.frames < MaxTypingFrames
            /\ typing' = [Typing_update(typing, r1, r2) EXCEPT !.frames = typing.frames + 1]
    /\ UNCHANGED << simulation, flappy >>

TypingNext ==
    \/ \E e \in TypingKeys, r1 \in GapDraws, r2 \in WordDraws : TypingKeydown(e, r1, r2)
    \/ \E r1 \in GapDraws, r2 \in WordDraws : TypingFrame(r1, r2)

TypingSpec == GameInit /\ [][TypingNext]_vars

\* ------------------------------------------------------------------------
\* Vocabulary of the properties
\* ------------------------------------------------------------------------

\* The rounding tolerance ("epsilon") of a magnitude bound: 0.005
Epsilon == SCALE \div 200

\* v . w
dot(v, w) == FAdd(FMul(v.x, w.x), FMul(v.y, w.y))

\* neither component is NaN or infinite
IsFiniteVec(v) == IsFinite(v.x) /\ IsFinite(v.y)

\* |v| <= m, exactly (no rounding); false of a vector with a NaN or infinite component
MagLe(v, m) == IsFiniteVec(v) /\ v.x * v.x + v.y * v.y <= m * m

Agents == 1..Len(boids)

\* Another agent lies strictly within distance `range` of agent i
OtherWithin(i, range) ==
    \E j \in Agents : j # i /\ FLt(dist(boids[i].position, boids[j].position), range)

\* 0 <= p <= extent
Inside(p, extent) == FLe(0, p) /\ FLe(p, extent)

\* 1 < d < 2 * PERCEPTION_RADIUS for agent b and orb o
OrbNear(b, o) ==
    LET d == dist(b.position, o.position)
    IN  FGt(d, SCALE) /\ FLt(d, 2 * PERCEPTION_RADIUS)

\* ------------------------------------------------------------------------
\* C1
\* ------------------------------------------------------------------------

\* C1: in every reachable state every agent of the population has
\* |velocity| <= MAX_SPEED (+ the rounding tolerance the spec allows).
C1_SpeedCap ==
    \A i \in Agents : MagLe(boids[i].velocity, MAX_SPEED + Epsilon)

\* ------------------------------------------------------------------------
\* C2
\* ------------------------------------------------------------------------

\* C2: for every agent in every population state, each rule's vector has
\* magnitude <= MAX_FORCE (+ the rounding tolerance) whenever another agent is
\* inside the rule's range, a neighbour at the agent's own position included.
C2_SteeringCap ==
    \A i \in Agents :
       /\ OtherWithin(i, desiredSeparation)
            => MagLe(separation(boids, i), MAX_FORCE + Epsilon)
       /\ OtherWithin(i, PERCEPTION_RADIUS)
            => /\ MagLe(alignment(boids, i, PERCEPTION_RADIUS), MAX_FORCE + Epsilon)
               /\ MagLe(cohesion(boids, i, PERCEPTION_RADIUS), MAX_FORCE + Epsilon)

\* ------------------------------------------------------------------------
\* C3
\* ------------------------------------------------------------------------

\* C3: when an agent's update() has just run (the loop is about to call its
\* edges()), that agent's acceleration is the zero vector.
C3_AccelerationReset ==
    pc = "edges" => boids[cur].acceleration = Zero

\* ------------------------------------------------------------------------
\* C4
\* ------------------------------------------------------------------------

\* C4: a rule returns the zero vector for an agent with no other agent strictly
\* inside the rule's range (size * 6 for separation, PERCEPTION_RADIUS for
\* alignment and cohesion); an agent is never its own neighbour.
C4_NoNeighbourZero ==
    \A i \in Agents :
       /\ ~OtherWithin(i, size * 6 * SCALE) => separation(boids, i) = Zero
       /\ ~OtherWithin(i, PERCEPTION_RADIUS)
            => /\ alignment(boids, i, PERCEPTION_RADIUS) = Zero
               /\ cohesion(boids, i, PERCEPTION_RADIUS) = Zero

\* flock() has run for an agent that has a flockmate but none in range of any
\* rule, and left its acceleration zero
C4_Witness ==
    /\ pc = "orbs"
    /\ Len(boids) = 2
    /\ ~OtherWithin(cur, size * 6 * SCALE)
    /\ ~OtherWithin(cur, PERCEPTION_RADIUS)
    /\ IsFiniteVec(boids[1].position) /\ IsFiniteVec(boids[2].position)
    /\ boids[cur].acceleration = Zero

\* ------------------------------------------------------------------------
\* C5
\* ------------------------------------------------------------------------

\* C5: in wrap mode edges() sends x > width to 0, x < 0 to width, y > height to
\* 0, y < 0 to height, leaves a coordinate inside the canvas alone, and never
\* changes the velocity.
C5_WrapEdges ==
    [][ (pc = "edges" /\ wrap) =>
          LET b == boids[cur]
              a == boids'[cur]
          IN  /\ a.velocity = b.velocity
              /\ FGt(b.position.x, canvas.width) => a.position.x = 0
              /\ FLt(b.position.x, 0) => a.position.x = canvas.width
              /\ FGt(b.position.y, canvas.height) => a.position.y = 0
              /\ FLt(b.position.y, 0) => a.position.y = canvas.height
              /\ Inside(b.position.x, canvas.width) => a.position.x = b.position.x
              /\ Inside(b.position.y, canvas.height) => a.position.y = b.position.y
      ]_vars

\* After a wrap-mode frame: one agent that left by the right and bottom edges
\* sits at (0, 0) still moving right and down, another that left by the left
\* and top edges sits at (width, height) still moving left and up
C5_Witness ==
    /\ wrap
    /\ pc = "request"
    /\ canvas.width > 0
    /\ \E i, j \in Agents :
          /\ boids[i].position = [x |-> 0, y |-> 0]
          /\ FGt(boids[i].velocity.x, 0) /\ FGt(boids[i].velocity.y, 0)
          /\ boids[j].position = [x |-> canvas.width, y |-> canvas.height]
          /\ FLt(boids[j].velocity.x, 0) /\ FLt(boids[j].velocity.y, 0)

\* ------------------------------------------------------------------------
\* C6
\* ------------------------------------------------------------------------

\* C6: in bounce mode edges(false) sends x > width to width - 1 and x < 0 to 1,
\* negating the x-velocity, likewise for y; a coordinate inside the canvas and
\* its velocity component are unchanged.
C6_BounceEdges ==
    [][ (pc = "edges" /\ ~wrap) =>
          LET b == boids[cur]
              a == boids'[cur]
          IN  /\ FGt(b.position.x, canvas.width)
                   => /\ a.position.x = canvas.width - SCALE
                      /\ a.velocity.x = FNeg(b.velocity.x)
              /\ FLt(b.position.x, 0)
                   => /\ a.position.x = SCALE
                      /\ a.velocity.x = FNeg(b.velocity.x)
              /\ FGt(b.position.y, canvas.height)
                   => /\ a.position.y = canvas.height - SCALE
                      /\ a.velocity.y = FNeg(b.velocity.y)
              /\ FLt(b.position.y, 0)
                   => /\ a.position.y = SCALE
                      /\ a.velocity.y = FNeg(b.velocity.y)
              /\ Inside(b.position.x, canvas.width)
                   => /\ a.position.x = b.position.x
                      /\ a.velocity.x = b.velocity.x
              /\ Inside(b.position.y, canvas.height)
                   => /\ a.position.y = b.position.y
                      /\ a.velocity.y = b.velocity.y
      ]_vars

\* After a bounce-mode frame: one agent bounced off the right and bottom walls,
\* another off the left and top walls
C6_Witness ==
    /\ ~wrap
    /\ pc = "request"
    /\ canvas.width > 0
    /\ \E i, j \in Agents :
          /\ boids[i].position = [x |-> canvas.width - SCALE, y |-> canvas.height - SCALE]
          /\ FLt(boids[i].velocity.x, 0) /\ FLt(boids[i].velocity.y, 0)
          /\ boids[j].position = [x |-> SCALE, y |-> SCALE]
          /\ FGt(boids[j].velocity.x, 0) /\ FGt(boids[j].velocity.y, 0)

\* ------------------------------------------------------------------------
\* C7
\* ------------------------------------------------------------------------

\* C7: for every agent and every orb in range (1 < d < 2 * PERCEPTION_RADIUS),
\* the force applyOrbForces adds has a positive dot product with the direction
\* from the agent to the orb for an attractor, a negative one for a repulsor.
C7_OrbForceDirection ==
    \A i \in Agents : \A k \in 1..Len(orbs) :
       OrbNear(boids[i], orbs[k]) =>
          LET toOrb == sub(orbs[k].position, boids[i].position)
              f == OrbForce(boids[i], orbs[k])
          IN  /\ orbs[k].type = "attractor" => FGt(dot(f, toOrb), 0)
              /\ orbs[k].type = "repulsor" => FLt(dot(f, toOrb), 0)

\* applyOrbForces has just run for an agent with an attractor and a repulsor in range
C7_Witness ==
    /\ pc = "update"
    /\ \E k, l \in 1..Len(orbs) :
          /\ orbs[k].type = "attractor" /\ OrbNear(boids[cur], orbs[k])
          /\ orbs[l].type = "repulsor" /\ OrbNear(boids[cur], orbs[l])
    /\ boids[cur].acceleration # Zero

\* ------------------------------------------------------------------------
\* C8
\* ------------------------------------------------------------------------

RECURSIVE NearOrbForces(_, _, _)
\* acc plus, in the orbs' order, the force of every orb from the k-th on that
\* is in range of agent b
NearOrbForces(b, k, acc) ==
    IF k > Len(orbs) THEN acc
    ELSE NearOrbForces(b, k + 1,
            IF OrbNear(b, orbs[k]) THEN add(acc, OrbForce(b, orbs[k])) ELSE acc)

\* What applyOrbForces does to the acceleration of the agent the loop is at:
\* it adds the forces of the orbs with 1 < d < 2 * PERCEPTION_RADIUS, and
\* nothing for an orb with d <= 1 or d >= 2 * PERCEPTION_RADIUS
OrbRangeOnly ==
    pc = "orbs" =>
       /\ boids'[cur].acceleration =
             NearOrbForces(boids[cur], 1, boids[cur].acceleration)
       /\ (\A k \in 1..Len(orbs) : ~OrbNear(boids[cur], orbs[k]))
             => boids'[cur].acceleration = boids[cur].acceleration

\* C8 as stated: forces only from orbs with 1 < d < 2 * PERCEPTION_RADIUS, and
\* every applied orb force has magnitude <= MAX_FORCE.
C8_OrbRangeExact ==
    [][ /\ OrbRangeOnly
        /\ pc = "orbs" =>
              \A k \in 1..Len(orbs) :
                 OrbNear(boids[cur], orbs[k])
                    => MagLe(OrbForce(boids[cur], orbs[k]), MAX_FORCE)
      ]_vars

\* C8 as amended: forces only from orbs with 1 < d < 2 * PERCEPTION_RADIUS, and
\* every applied orb force has magnitude <= MAX_FORCE up to the rounding of
\* limit()'s rescaling (MAX_FORCE + epsilon).
C8_OrbRange ==
    [][ /\ OrbRangeOnly
        /\ pc = "orbs" =>
              \A k \in 1..Len(orbs) :
                 OrbNear(boids[cur], orbs[k])
                    => MagLe(OrbForce(boids[cur], orbs[k]), MAX_FORCE + Epsilon)
      ]_vars

\* applyOrbForces has just run for an agent with one orb in range, whose force
\* is now its acceleration, and one orb out of range (at distance <= 1)
C8_Witness ==
    /\ pc = "update"
    /\ \E k, l \in 1..Len(orbs) :
          /\ OrbNear(boids[cur], orbs[k])
          /\ FLe(dist(boids[cur].position, orbs[l].position), SCALE)
          /\ boids[cur].acceleration = OrbForce(boids[cur], orbs[k])

\* ------------------------------------------------------------------------
\* C9
\* ------------------------------------------------------------------------

\* C9: when initSimulation() has returned (its animate() call included) with
\* population size P = NUM_BOIDS, whichever handler called it, the population
\* holds exactly P agents, all built by this initSimulation(), each inside the
\* canvas and with |velocity| <= MAX_SPEED (+ the rounding tolerance).
C9_ResetPostcondition ==
    (pc = "idle" /\ caller # "raf") =>
       /\ Len(boids) = NUM_BOIDS
       /\ \A i \in Agents :
             /\ boids[i].born = frames
             /\ Inside(boids[i].position.x, canvas.width)
             /\ Inside(boids[i].position.y, canvas.height)
             /\ MagLe(boids[i].velocity, MAX_SPEED + Epsilon)

\* ------------------------------------------------------------------------
\* C10
\* ------------------------------------------------------------------------

\* C10: when the reset button's handler ends (its last statement is the
\* requestAnimationFrame of the animate() call it makes), every parameter is
\* at its default (population size, the three weights, the perception radius,
\* wrap mode on) and the population is rebuilt.
C10_ResetRestoresAll ==
    (caller = "reset" /\ pc = "request") =>
       /\ NUM_BOIDS = DEFAULT_NUM_BOIDS
       /\ SEPARATION_WEIGHT = DEFAULT_SEPARATION_WEIGHT
       /\ ALIGNMENT_WEIGHT = DEFAULT_ALIGNMENT_WEIGHT
       /\ COHESION_WEIGHT = DEFAULT_COHESION_WEIGHT
       /\ PERCEPTION_RADIUS = DEFAULT_PERCEPTION_RADIUS
       /\ wrap = TRUE
       /\ Len(boids) = DEFAULT_NUM_BOIDS
       /\ \A i \in Agents : boids[i].born = frames

\* ------------------------------------------------------------------------
\* C11
\* ------------------------------------------------------------------------

\* The step is the handling of a UI event of this type
Handles(type) == events' # events /\ handled'.type = type

\* The orb a mousedown places: at the pointer, relative to the canvas' box
PlacedOrb(type) ==
    [position |-> [x |-> handled'.clientX - rect.left, y |-> handled'.clientY - rect.top],
     radius |-> ORB_RADIUS, type |-> type]

InitSimulationRan == frames' # frames /\ caller' # "raf"

\* C12: every step other than an initSimulation() keeps every orb placed so
\* far, in place and with unchanged position, radius and kind (a frame, a
\* weight or perception change, a boundary toggle, a further placement);
\* initSimulation() leaves the orb container empty.
C12_OrbLifetime ==
    [][ IF InitSimulationRan
        THEN orbs' = << >>
        ELSE /\ Len(orbs') >= Len(orbs)
             /\ SubSeq(orbs', 1, Len(orbs)) = orbs
      ]_vars

\* Two orbs, placed one after the other, have both lived through a whole frame
C12_Witness ==
    /\ Len(orbs) = 2
    /\ handled.type = "frame"
    /\ pc = "request"
    /\ Len(boids) > 0

\* ------------------------------------------------------------------------
\* C13
\* ------------------------------------------------------------------------

\* The z component of v x w: zero exactly when v and w are parallel
cross(v, w) == FSub(FMul(v.x, w.y), FMul(v.y, w.x))

\* The population is two agents exactly 1 unit apart, both at rest
TwoAtRestOneApart ==
    /\ Len(boids) = 2
    /\ dist(boids[1].position, boids[2].position) = SCALE
    /\ boids[1].velocity = Zero
    /\ boids[2].velocity = Zero

\* C13: with two agents exactly 1 unit apart, both at rest (desiredSeparation
\* is 12, size 2), separation() for the first agent returns a nonzero vector
\* pointing from the second agent's position toward the first agent's.
C13_SeparationExample ==
    TwoAtRestOneApart =>
       LET s == separation(boids, 1)
           away == sub(boids[1].position, boids[2].position)
       IN  /\ desiredSeparation = 12 * SCALE
           /\ s # Zero
           /\ cross(s, away) = 0
           /\ FGt(dot(s, away), 0)

\* flock() has just run for the first of two agents 1 unit apart and at rest,
\* and its acceleration points away from the second
C13_Witness ==
    /\ TwoAtRestOneApart
    /\ pc = "orbs"
    /\ cur = 1
    /\ FGt(dot(boids[1].acceleration, sub(boids[1].position, boids[2].position)), 0)

\* ------------------------------------------------------------------------
\* C14
\* ------------------------------------------------------------------------

\* C14: when flock() is about to run for an agent, each of the three vectors
\* it will hand to applyForce (the rule's vector times the rule's weight) has
\* magnitude <= MAX_FORCE (+ the rounding tolerance), whatever the weights.
C14_AppliedForceCap ==
    pc = "flock" =>
       /\ MagLe(mult(separation(boids, cur), SEPARATION_WEIGHT), MAX_FORCE + Epsilon)
       /\ MagLe(mult(alignment(boids, cur, PERCEPTION_RADIUS), ALIGNMENT_WEIGHT),
                MAX_FORCE + Epsilon)
       /\ MagLe(mult(cohesion(boids, cur, PERCEPTION_RADIUS), COHESION_WEIGHT),
                MAX_FORCE + Epsilon)

\* ------------------------------------------------------------------------
\* C15
\* ------------------------------------------------------------------------

\* separation() for agent i divides by a zero d * d: a flockmate is at
\* distance 0 of it
DividesByZero(i) ==
    \E j \in Agents :
       LET d == dist(boids[i].position, boids[j].position)
       IN  IsOther(i, j) /\ InSeparationRange(d) /\ FMul(d, d) = 0

\* C15: flock() never runs for an agent whose separation() divides by zero,
\* and every agent's position, velocity and acceleration components are
\* finite in every reachable state (zero agents, zero orbs, zero neighbours,
\* a zero-size canvas and coincident agents included).
C15_AlwaysFinite ==
    /\ pc = "flock" => ~DividesByZero(cur)
    /\ \A i \in Agents :
          /\ IsFiniteVec(boids[i].position)
          /\ IsFiniteVec(boids[i].velocity)
          /\ IsFiniteVec(boids[i].acceleration)

\* ------------------------------------------------------------------------
\* C16
\* ------------------------------------------------------------------------

\* C16: in every reachable state (after any sequence of initial setup, reset
\* clicks and population-slider changes) at most one animation-frame callback
\* is pending, and it is the one animationFrameId names, the one the next
\* initSimulation() cancels.
C16_SingleFrameLoop ==
    /\ Cardinality(pending) <= 1
    /\ pending \subseteq {animationFrameId}

\* The reset handler has returned after the third animate() call (the setup's,
\* then a frame's or a rebuild's, then its own) and one callback is pending
C16_Witness ==
    /\ pc = "idle"
    /\ caller = "reset"
    /\ frames = 3
    /\ pending = {3}

\* ------------------------------------------------------------------------
\* C17
\* ------------------------------------------------------------------------

\* Agent j of population bs after its four steps, in the loop's order:
\* flock, orb forces, integration, boundary resolution
StepAgent(bs, j) ==
    edges(update(applyOrbForces(
             flock(bs, j, PERCEPTION_RADIUS, SEPARATION_WEIGHT, ALIGNMENT_WEIGHT,
                   COHESION_WEIGHT),
             orbs, PERCEPTION_RADIUS)),
          wrap, canvas)

\* The population agent j's steps start from: the agents before j as they are
\* now, j and the agents after it as they were when the frame began
MixAt(j) ==
    [k \in 1..Len(boids) |-> IF k < j THEN boids[k] ELSE frameStart[k]]

InLoop == pc \in {"flock", "orbs", "update", "edges"}

\* C17: when a frame's loop has ended, every agent of the population is what
\* the four steps make of it, each run once and in the order flock, orb
\* forces, integrate (velocity += acceleration, limit to MAX_SPEED, position
\* += velocity, acceleration *= 0), boundary resolution; no agent and no step
\* is left out, whatever the parameters.
C17_StepOrder ==
    pc = "request" =>
       /\ Len(boids) = Len(frameStart)
       /\ \A j \in Agents : boids[j] = StepAgent(MixAt(j), j)

\* A frame of the running loop has ended for two agents and an orb, and it
\* moved both agents
C17_Witness ==
    /\ pc = "request"
    /\ handled.type = "frame"
    /\ Len(boids) = 2
    /\ Len(orbs) > 0
    /\ boids[1].position # frameStart[1].position
    /\ boids[2].position # frameStart[2].position

\* ------------------------------------------------------------------------
\* C18
\* ------------------------------------------------------------------------

\* C18: the step that evaluates separation(), alignment() and cohesion() for
\* an agent (flock) and the step that evaluates applyOrbForces() for it leave
\* the position and velocity of every agent, that agent included, and every
\* orb unchanged, and the acceleration of every other agent; the agent's own
\* acceleration becomes what the applyForce calls add to it.
C18_OperandsUntouched ==
    [][ (pc = "flock" \/ pc = "orbs") =>
          /\ Len(boids') = Len(boids)
          /\ \A j \in Agents :
                /\ boids'[j].position = boids[j].position
                /\ boids'[j].velocity = boids[j].velocity
                /\ j # cur => boids'[j].acceleration = boids[j].acceleration
          /\ orbs' = orbs
          /\ pc = "flock" =>
                boids'[cur] = flock(boids, cur, PERCEPTION_RADIUS, SEPARATION_WEIGHT,
                                    ALIGNMENT_WEIGHT, COHESION_WEIGHT)
          /\ pc = "orbs" =>
                boids'[cur] = applyOrbForces(boids[cur], orbs, PERCEPTION_RADIUS)
      ]_vars

\* flock() and applyOrbForces() have run for an agent with a flockmate inside
\* the range of all three rules and an orb in range; the agent is where it was
\* when the frame began and has an acceleration
C18_Witness ==
    /\ pc = "update"
    /\ OtherWithin(cur, desiredSeparation)
    /\ \E k \in 1..Len(orbs) : OrbNear(boids[cur], orbs[k])
    /\ boids[cur].position = frameStart[cur].position
    /\ boids[cur].velocity = frameStart[cur].velocity
    /\ IsFiniteVec(boids[cur].acceleration)
    /\ boids[cur].acceleration # Zero

\* ------------------------------------------------------------------------
\* C19
\* ------------------------------------------------------------------------

\* C19: the handler of a weight slider, of the perception slider or of the
\* boundary toggle assigns its own parameter and leaves the agents, the orbs
\* and every other parameter unchanged; the population slider's handler sets
\* NUM_BOIDS and replaces every agent; only it, the reset button (and the
\* initial setup) rebuild the population; the number of agents equals
\* NUM_BOIDS after every step.
C19_OnlySizeRebuilds ==
    [][ /\ Handles("separation") =>
              /\ SEPARATION_WEIGHT' = handled'.value
              /\ UNCHANGED << boids, orbs, NUM_BOIDS, PERCEPTION_RADIUS, wrap,
                              ALIGNMENT_WEIGHT, COHESION_WEIGHT >>
        /\ Handles("alignment") =>
              /\ ALIGNMENT_WEIGHT' = handled'.value
              /\ UNCHANGED << boids, orbs, NUM_BOIDS, PERCEPTION_RADIUS, wrap,
                              SEPARATION_WEIGHT, COHESION_WEIGHT >>
        /\ Handles("cohesion") =>
              /\ COHESION_WEIGHT' = handled'.value
              /\ UNCHANGED << boids, orbs, NUM_BOIDS, PERCEPTION_RADIUS, wrap,
                              SEPARATION_WEIGHT, ALIGNMENT_WEIGHT >>
        /\ Handles("percep") =>
              /\ PERCEPTION_RADIUS' = handled'.value
              /\ UNCHANGED << boids, orbs, NUM_BOIDS, wrap, SEPARATION_WEIGHT,
                              ALIGNMENT_WEIGHT, COHESION_WEIGHT >>
        /\ Handles("wrap") =>
              /\ wrap' = ~wrap
              /\ UNCHANGED << boids, orbs, NUM_BOIDS, PERCEPTION_RADIUS,
                              SEPARATION_WEIGHT, ALIGNMENT_WEIGHT, COHESION_WEIGHT >>
        /\ Handles("numBoids") =>
              /\ NUM_BOIDS' = handled'.value
              /\ InitSimulationRan
              /\ \A i \in 1..Len(boids') : boids'[i].born = frames'
              /\ \A i \in Agents : boids[i].born < frames'
        /\ InitSimulationRan => handled'.type \in {"load", "numBoids", "reset"}
        /\ Len(boids') = NUM_BOIDS'
      ]_vars

\* The separation slider has just been moved, after an orb was placed: the
\* weight is the slider's, the two agents and the orb are still there
C19_Witness ==
    /\ handled.type = "separation"
    /\ pc = "idle"
    /\ SEPARATION_WEIGHT = handled.value
    /\ SEPARATION_WEIGHT # DEFAULT_SEPARATION_WEIGHT
    /\ Len(boids) = 2
    /\ Len(orbs) = 1

\* ------------------------------------------------------------------------
\* C20
\* ------------------------------------------------------------------------

\* C20: inside a frame's loop, at agent cur, every agent after cur is as it
\* was when the frame began, every agent before cur has this frame's result
\* (its four steps, computed from the agents before it already updated and
\* the others not yet), and the steering flock() computes for cur reads that
\* mixed population, not the population of the frame's start.
C20_InPlaceUpdate ==
    InLoop =>
       /\ Len(frameStart) = Len(boids)
       /\ \A j \in Agents : j > cur => boids[j] = frameStart[j]
       /\ \A j \in Agents : j < cur => boids[j] = StepAgent(MixAt(j), j)
       /\ pc = "flock" => boids[cur] = frameStart[cur]
       /\ pc = "orbs" =>
             boids[cur] = flock(MixAt(cur), cur, PERCEPTION_RADIUS, SEPARATION_WEIGHT,
                                ALIGNMENT_WEIGHT, COHESION_WEIGHT)

\* flock() has just run for the second agent, and the acceleration it gave it
\* is not the one the population of the frame's start would have given
C20_Witness ==
    /\ pc = "orbs"
    /\ cur = 2
    /\ IsFiniteVec(boids[2].acceleration)
    /\ boids[1] # frameStart[1]
    /\ boids[2] # flock(frameStart, 2, PERCEPTION_RADIUS, SEPARATION_WEIGHT,
                        ALIGNMENT_WEIGHT, COHESION_WEIGHT)

\* ------------------------------------------------------------------------
\* C21
\* ------------------------------------------------------------------------

\* The step is the handling of a keydown of the Space key by the physics game
FlappySpacePressed == flappy'.keys # flappy.keys /\ flappy'.code = "Space"

\* C21: in the physics bird game, a keydown of Space while the game is over
\* restarts it: afterwards gameOver is false, the score is 0, there are no
\* pipes and the bird is at mid-height.
C21_SpaceRestarts ==
    [][ (flappy.gameOver /\ FlappySpacePressed) =>
          /\ ~flappy'.gameOver
          /\ flappy'.score = 0
          /\ flappy'.pipes = << >>
          /\ flappy'.bird.y = (FlappyCanvas.height * SCALE) \div 2
      ]_vars

\* activePipeIndex is -1 or the index of the first pipe not passed
ActiveIndexValid ==
    \/ typing.activePipeIndex = -1
    \/ /\ typing.activePipeIndex \in 0..(Len(typing.pipes) - 1)
       /\ ~typing.pipes[typing.activePipeIndex + 1].passed
       /\ \A k \in 1..typing.activePipeIndex : typing.pipes[k].passed

\* A frame that removes the leading pipe leaves an active index on the pipe
\* it was on, which this frame moved by pipeSpeed
ShiftKeepsPipe ==
    (typing'.shifts # typing.shifts /\ typing.activePipeIndex # -1) =>
        /\ typing'.activePipeIndex = typing.activePipeIndex - 1
        /\ typing'.activePipeIndex \in 0..(Len(typing'.pipes) - 1)
        /\ typing'.pipes[typing'.activePipeIndex + 1]
             = [typing.pipes[typing.activePipeIndex + 1]
                  EXCEPT !.x = typing.pipes[typing.activePipeIndex + 1].x - Typing_pipeSpeed]

\* The keydown of e in a running game completes the word of the active pipe
CompletesWord(e) ==
    /\ typing.gameStarted /\ ~typing.gameOver
    /\ typing.activePipeIndex # -1
    /\ Typing_Typed(typing, e) = typing.pipes[typing.activePipeIndex + 1].word
    /\ \E r1 \in GapDraws, r2 \in WordDraws : TypingKeydown(e, r1, r2)

\* A completed word marks its pipe passed and changes no other pipe, adds 1
\* to the score, empties the typed word and leaves no pipe active
WordAccepted ==
    \A e \in TypingKeys :
        CompletesWord(e) =>
            /\ typing'.pipes = [typing.pipes EXCEPT ![typing.activePipeIndex + 1].passed = TRUE]
            /\ typing'.score = typing.score + 1
            /\ typing'.currentTypedWord = << >>
            /\ typing'.activePipeIndex = -1

\* C22: in the typing bird game, whatever the interleaving of update() frames
\* and keydown events, activePipeIndex is -1 or a valid index of pipes whose
\* pipe is the first one with passed = false; a frame that removes the leading
\* pipe with shift() keeps the index on the same pipe; and a correctly typed
\* word sets passed, adds exactly 1 to the score, clears the typed word and
\* resets activePipeIndex to -1.
C22_ActivePipeIndex ==
    /\ []ActiveIndexValid
    /\ [][ShiftKeepsPipe /\ WordAccepted]_vars

\* A word was typed correctly, the leading pipe was removed, and the index
\* points at the pipe behind it, now the first of the array
C22_Witness ==
    /\ typing.shifts > 0
    /\ typing.score = 1
    /\ typing.activePipeIndex = 0
    /\ Len(typing.pipes) = 1
    /\ ~typing.pipes[1].passed

====
